---- MODULE Spec2Model ----
(***************************************************************************)
(* generateIconFiles (packages/cli: icons/generate-icon-files.ts).         *)
(*                                                                         *)
(* Texts are sequences of characters; a few fixed multi-character pieces   *)
(* of the templates ("id=", "<symbol ", the template heads and tails) are  *)
(* kept as one element each.  The quote characters, the characters of the  *)
(* identifiers and the extension are single elements, so that the          *)
(* substring tests of the staleness check see what String.includes sees.   *)
(*                                                                         *)
(* The contents of the source svg files never change during a behaviour:   *)
(* the merged document is a function of the file list alone.               *)
(***************************************************************************)
EXTENDS Integers, Sequences, FiniteSets, TLC

\* ------------------------------------------------------------------ bounds
MaxRuns == 2

\* ------------------------------------------------------------ text helpers
DQ == "\""
SQ == "'"

\* String.prototype.includes
Includes(text, pat) ==
  \E i \in 0..(Len(text) - Len(pat)) : SubSeq(text, i + 1, i + Len(pat)) = pat

\* String.prototype.replace(/x/g, y) for a one-character x
ReplaceAll(text, from, to) ==
  [i \in 1..Len(text) |-> IF text[i] = from THEN to ELSE text[i]]

\* Array.prototype.join
RECURSIVE Join(_, _)
Join(parts, sep) ==
  IF Len(parts) = 0 THEN << >>
  ELSE IF Len(parts) = 1 THEN parts[1]
  ELSE parts[1] \o sep \o Join(Tail(parts), sep)

Range(s) == {s[i] : i \in 1..Len(s)}

\* --------------------------------------------------------------- the inputs
Ext == <<".", "s", "v", "g">>
SourceFiles == {<<"h">> \o Ext, <<"h", "2">> \o Ext}

\* the file lists a caller passes: the svg files it found under inputDir, each
\* once, in the order it found them
FileLists ==
  {l \in UNION {[1..n -> SourceFiles] : n \in 0..Cardinality(SourceFiles)} :
     \A i, j \in 1..Len(l) : i # j => l[i] # l[j]}

Options ==
  [files : FileLists, shouldOptimize : BOOLEAN, shouldHash : BOOLEAN, force : BOOLEAN]

\* ------------------------------------------------------------ collaborators
\* iconName(file): the file name without its .svg extension
iconName(file) ==
  IF Len(file) >= Len(Ext) /\ SubSeq(file, Len(file) - Len(Ext) + 1, Len(file)) = Ext
  THEN SubSeq(file, 1, Len(file) - Len(Ext))
  ELSE file

\* one element of the merged document
SymbolOf(file) ==
  <<"<symbol ", "id=">> \o iconName(file) \o <<">", "</symbol>", "\n">>

\* generateSvgSprite({files, inputDir})
generateSvgSprite(files) ==
  <<"<svg>", "\n">>
    \o Join([i \in 1..Len(files) |-> SymbolOf(files[i])], << >>)
    \o <<"</svg>", "\n">>

\* svgo's optimize(output, config).data: drops the whitespace between elements
\* and keeps every id
optimize(doc) == SelectSeq(doc, LAMBDA c : c # "\n")

\* crypto.createHash('md5').update(x).digest('hex'), taken as collision free
md5(content) == <<"md5(">> \o content \o <<")">>

\* the `hash` local before (or without) its assignment
undefined == << >>

\* ------------------------------------------------------------------ the disk
Artifacts == {"sprite", "types", "icons", "hash"}

NoFile == [exists |-> FALSE, content |-> << >>]
File(text) == [exists |-> TRUE, content |-> text]

\* fsExtra.readFile(path, 'utf8').catch(() => '')
ReadOrEmpty(d, a) == IF d[a].exists THEN d[a].content ELSE << >>

\* ------------------------------------------------------ generated contents
\* a variant that lists every name once, at its first place
stringifiedDistinctNames(names) ==
  LET first == SelectSeq([i \in 1..Len(names) |-> i],
                         LAMBDA i : \A j \in 1..(i - 1) : names[j] # names[i])
  IN  [n \in 1..Len(first) |-> <<DQ>> \o names[first[n]] \o <<DQ>>]

stringifiedIconNames(names) ==
  [i \in 1..Len(names) |-> <<DQ>> \o names[i] \o <<DQ>>]

typeOutputContent(names) ==
  <<"export type IconName =\n    \t| ">>
    \o ReplaceAll(Join(stringifiedIconNames(names), <<"\n\t| ">>), DQ, SQ)
    \o <<";\n    ">>

iconsOutputContent(names) ==
  <<"import { IconName } from './types/icon-name';\n  \n  export const icons = [\n  \t">>
    \o Join(stringifiedIconNames(names), <<",\n\t">>)
    \o <<",\n  ] satisfies Array<IconName>;\n  ">>

hashFileContent(h) == <<"export const hash = '">> \o h \o <<"';\n">>

\* the decision of writeIfChanged({filepath, newContent, hash, force})
ShouldWrite(d, a, newContent, h, f) ==
  IF f THEN TRUE
  ELSE IF h # undefined THEN (~d[a].exists) \/ md5(ReadOrEmpty(d, a)) # h
  ELSE ReadOrEmpty(d, a) # newContent

\* what a regenerating invocation with options o computes for each artifact
finalOutput(o) ==
  IF o.shouldOptimize THEN optimize(generateSvgSprite(o.files))
  ELSE generateSvgSprite(o.files)

namesOf(files) == [i \in 1..Len(files) |-> iconName(files[i])]

Fresh(o, a) ==
  CASE a = "sprite" -> finalOutput(o)
    [] a = "types" -> typeOutputContent(namesOf(o.files))
    [] a = "icons" -> iconsOutputContent(namesOf(o.files))
    [] a = "hash" -> hashFileContent(md5(finalOutput(o)))

\* ----------------------------------------------------- on-disk start states
\* An output directory is either empty, or holds a sprite and/or a types file
\* that this tool did not write in their present form: the sprite of an earlier
\* source set, and a types file whose literals carry double quotes (the form
\* JSON.stringify gives, and the form a code formatter rewrites the file to).
DoubleQuotedTypes(names) ==
  <<"export type IconName =\n    \t| ">>
    \o Join(stringifiedIconNames(names), <<"\n\t| ">>)
    \o <<";\n    ">>

InitialSprites == {NoFile, File(generateSvgSprite(<< <<"h", "2">> \o Ext >>))}
InitialTypes == {NoFile, File(DoubleQuotedTypes(<< <<"h">>, <<"h", "2">> >>))}

InitialDisks ==
  {[a \in Artifacts |->
      IF a = "sprite" THEN s ELSE IF a = "types" THEN t ELSE NoFile] :
    s \in InitialSprites, t \in InitialTypes}

\* -------------------------------------------------------------------- state
VARIABLES
  pc,               \* the step generateIconFiles is about to take
  opts,             \* the options of the current invocation
  disk,             \* the four artifacts on disk
  typesDir,         \* whether outputDir/types exists
  currentSprite, currentTypes,
  spriteUpToDate, typesUpToDate,
  output, hash,
  spriteChanged, typesChanged, iconsChanged, hashFileChanged,
  log,              \* the closing console line of the invocation
  disk0,            \* history: the disk when the invocation started
  written,          \* history: the artifacts this invocation wrote
  digests,          \* history: whether this invocation computed a digest
  prev,             \* history: the invocation before this one
  runs,             \* history: invocations started
  steps,            \* history: the steps this invocation has taken, in order
  conc              \* a second invocation in flight on the same directories

locals ==
  <<currentSprite, currentTypes, spriteUpToDate, typesUpToDate, output, hash,
    spriteChanged, typesChanged, iconsChanged, hashFileChanged, log>>
history == <<disk0, written, digests, prev, runs>>
vars == <<pc, opts, disk, typesDir, locals, history, steps, conc>>

iconNames == [i \in 1..Len(opts.files) |-> iconName(opts.files[i])]

Completed == {"UP_TO_DATE", "REPORT"}
Terminal == Completed \cup {"FAILED"}

NoOptions ==
  [files |-> << >>, shouldOptimize |-> FALSE, shouldHash |-> FALSE, force |-> FALSE]
NoRun == [opts |-> NoOptions, term |-> "none", wrote |-> FALSE]

\* the state a call of generateIconFiles(o) starts in, as it is kept while the
\* invocation is suspended at an await and another one runs
Invocation(p, o) ==
  [pc |-> p, opts |-> o,
   currentSprite |-> << >>, currentTypes |-> << >>,
   spriteUpToDate |-> FALSE, typesUpToDate |-> FALSE,
   output |-> << >>, hash |-> undefined,
   spriteChanged |-> FALSE, typesChanged |-> FALSE,
   iconsChanged |-> FALSE, hashFileChanged |-> FALSE,
   log |-> "none", written |-> {}, digests |-> FALSE, steps |-> << >>]

\* self: the invocation that is running (1 or 2); other: the one that is not
\* (pc = "none": there is none); lastWriter: the invocation that wrote each
\* artifact last since the call(s) started, 0 for none
Alone ==
  [self |-> 1,
   other |-> Invocation("none", NoOptions),
   lastWriter |-> [a \in Artifacts |-> 0]]

Init ==
  /\ pc = "idle"
  /\ opts = NoOptions
  /\ disk \in InitialDisks
  /\ typesDir = disk["types"].exists
  /\ currentSprite = << >> /\ currentTypes = << >>
  /\ spriteUpToDate = FALSE /\ typesUpToDate = FALSE
  /\ output = << >> /\ hash = undefined
  /\ spriteChanged = FALSE /\ typesChanged = FALSE
  /\ iconsChanged = FALSE /\ hashFileChanged = FALSE
  /\ log = "none"
  /\ disk0 = disk
  /\ written = {}
  /\ digests = FALSE
  /\ prev = NoRun
  /\ runs = 0
  /\ steps = << >>
  /\ conc = Alone

\* ------------------------------------------------------------------ actions
\* a call of generateIconFiles(o); calls are serialized by the caller
Start ==
  /\ pc \in {"idle"} \cup Terminal
  /\ runs < MaxRuns
  /\ \E o \in Options : opts' = o
  /\ pc' = "ensureDir"
  /\ currentSprite' = << >> /\ currentTypes' = << >>
  /\ spriteUpToDate' = FALSE /\ typesUpToDate' = FALSE
  /\ output' = << >> /\ hash' = undefined
  /\ spriteChanged' = FALSE /\ typesChanged' = FALSE
  /\ iconsChanged' = FALSE /\ hashFileChanged' = FALSE
  /\ log' = "none"
  /\ disk0' = disk
  /\ written' = {}
  /\ digests' = FALSE
  /\ prev' = [opts |-> opts, term |-> IF pc = "idle" THEN "none" ELSE pc,
              wrote |-> written # {}]
  /\ runs' = runs + 1
  /\ steps' = << >>
  /\ conc' = Alone
  /\ UNCHANGED <<disk, typesDir>>

\* variant: the call that makes outputDir/types is left out
EnsureDirLeftOut ==
  /\ pc = "ensureDir"
  /\ steps' = Append(steps, pc)
  /\ UNCHANGED conc
  /\ typesDir' = typesDir
  /\ pc' = "readSprite"
  /\ UNCHANGED <<opts, disk, locals, history>>

\* await fsExtra.ensureDir(typesDir)
EnsureDir ==
  /\ pc = "ensureDir"
  /\ steps' = Append(steps, pc)
  /\ UNCHANGED conc
  /\ typesDir' = TRUE
  /\ pc' = "readSprite"
  /\ UNCHANGED <<opts, disk, locals, history>>

\* variant: the read of the sprite has no .catch, a missing file rejects
ReadSpriteNoCatch ==
  /\ pc = "readSprite"
  /\ steps' = Append(steps, pc)
  /\ UNCHANGED conc
  /\ currentSprite' = ReadOrEmpty(disk, "sprite")
  /\ pc' = IF disk["sprite"].exists THEN "readTypes" ELSE "FAILED"
  /\ UNCHANGED <<opts, disk, typesDir, currentTypes, spriteUpToDate, typesUpToDate,
                 output, hash, spriteChanged, typesChanged, iconsChanged,
                 hashFileChanged, log, history>>

ReadSprite ==
  /\ pc = "readSprite"
  /\ steps' = Append(steps, pc)
  /\ UNCHANGED conc
  /\ currentSprite' = ReadOrEmpty(disk, "sprite")
  /\ pc' = "readTypes"
  /\ UNCHANGED <<opts, disk, typesDir, currentTypes, spriteUpToDate, typesUpToDate,
                 output, hash, spriteChanged, typesChanged, iconsChanged,
                 hashFileChanged, log, history>>

ReadTypes ==
  /\ pc = "readTypes"
  /\ steps' = Append(steps, pc)
  /\ UNCHANGED conc
  /\ currentTypes' = ReadOrEmpty(disk, "types")
  /\ pc' = "check"
  /\ UNCHANGED <<opts, disk, typesDir, currentSprite, spriteUpToDate, typesUpToDate,
                 output, hash, spriteChanged, typesChanged, iconsChanged,
                 hashFileChanged, log, history>>

\* variant: an empty list of names is never up to date
SpriteUpToDateNonEmpty(names, sprite) ==
  /\ Len(names) > 0
  /\ \A i \in 1..Len(names) : Includes(sprite, <<"id=">> \o names[i])

SpriteUpToDate(names, sprite) ==
  \A i \in 1..Len(names) : Includes(sprite, <<"id=">> \o names[i])

TypesUpToDate(names, types) ==
  \A i \in 1..Len(names) : Includes(types, <<DQ>> \o names[i] \o <<DQ>>)

\* variant: the early return is skipped when force is set
CheckUpToDateUnlessForced ==
  /\ pc = "check"
  /\ steps' = Append(steps, pc)
  /\ UNCHANGED conc
  /\ spriteUpToDate' = SpriteUpToDate(iconNames, currentSprite)
  /\ typesUpToDate' = TypesUpToDate(iconNames, currentTypes)
  /\ IF spriteUpToDate' /\ typesUpToDate' /\ ~opts.force
     THEN pc' = "UP_TO_DATE" /\ log' = "Icons are up to date"
     ELSE pc' = "assemble" /\ log' = log
  /\ UNCHANGED <<opts, disk, typesDir, currentSprite, currentTypes, output, hash,
                 spriteChanged, typesChanged, iconsChanged, hashFileChanged, history>>

\* variant: the early return looks at the sprite alone
CheckSpriteOnly ==
  /\ pc = "check"
  /\ steps' = Append(steps, pc)
  /\ UNCHANGED conc
  /\ spriteUpToDate' = SpriteUpToDate(iconNames, currentSprite)
  /\ typesUpToDate' = TypesUpToDate(iconNames, currentTypes)
  /\ IF spriteUpToDate'
     THEN pc' = "UP_TO_DATE" /\ log' = "Icons are up to date"
     ELSE pc' = "assemble" /\ log' = log
  /\ UNCHANGED <<opts, disk, typesDir, currentSprite, currentTypes, output, hash,
                 spriteChanged, typesChanged, iconsChanged, hashFileChanged, history>>

\* the staleness check and the early return
CheckUpToDate ==
  /\ pc = "check"
  /\ steps' = Append(steps, pc)
  /\ UNCHANGED conc
  /\ spriteUpToDate' = SpriteUpToDate(iconNames, currentSprite)
  /\ typesUpToDate' = TypesUpToDate(iconNames, currentTypes)
  /\ IF spriteUpToDate' /\ typesUpToDate'
     THEN pc' = "UP_TO_DATE" /\ log' = "Icons are up to date"
     ELSE pc' = "assemble" /\ log' = log
  /\ UNCHANGED <<opts, disk, typesDir, currentSprite, currentTypes, output, hash,
                 spriteChanged, typesChanged, iconsChanged, hashFileChanged, history>>

AfterOptimize == IF opts.shouldHash THEN "hash" ELSE "writeSprite"

\* variant: the digest is taken right after assembly, before the optimizer
\* would run
AssembleThenHash ==
  /\ pc = "assemble"
  /\ steps' = Append(steps, pc)
  /\ UNCHANGED conc
  /\ output' = generateSvgSprite(opts.files)
  /\ pc' = IF opts.shouldHash THEN "hash"
           ELSE IF opts.shouldOptimize THEN "optimize" ELSE "writeSprite"
  /\ UNCHANGED <<opts, disk, typesDir, currentSprite, currentTypes, spriteUpToDate,
                 typesUpToDate, hash, spriteChanged, typesChanged, iconsChanged,
                 hashFileChanged, log, history>>

Assemble ==
  /\ pc = "assemble"
  /\ steps' = Append(steps, pc)
  /\ UNCHANGED conc
  /\ output' = generateSvgSprite(opts.files)
  /\ pc' = IF opts.shouldOptimize THEN "optimize" ELSE AfterOptimize
  /\ UNCHANGED <<opts, disk, typesDir, currentSprite, currentTypes, spriteUpToDate,
                 typesUpToDate, hash, spriteChanged, typesChanged, iconsChanged,
                 hashFileChanged, log, history>>

Optimize ==
  /\ pc = "optimize"
  /\ steps' = Append(steps, pc)
  /\ UNCHANGED conc
  /\ output' = optimize(output)
  /\ pc' = AfterOptimize
  /\ UNCHANGED <<opts, disk, typesDir, currentSprite, currentTypes, spriteUpToDate,
                 typesUpToDate, hash, spriteChanged, typesChanged, iconsChanged,
                 hashFileChanged, log, history>>

\* variant: the digest is taken of the assembled document, not of the
\* optimized output
HashOfAssembly ==
  /\ pc = "hash"
  /\ steps' = Append(steps, pc)
  /\ UNCHANGED conc
  /\ hash' = md5(generateSvgSprite(opts.files))
  /\ digests' = TRUE
  /\ pc' = "writeSprite"
  /\ UNCHANGED <<opts, disk, typesDir, currentSprite, currentTypes, spriteUpToDate,
                 typesUpToDate, output, spriteChanged, typesChanged, iconsChanged,
                 hashFileChanged, log, disk0, written, prev, runs>>

Hash ==
  /\ pc = "hash"
  /\ steps' = Append(steps, pc)
  /\ UNCHANGED conc
  /\ hash' = md5(output)
  /\ digests' = TRUE
  /\ pc' = "writeSprite"
  /\ UNCHANGED <<opts, disk, typesDir, currentSprite, currentTypes, spriteUpToDate,
                 typesUpToDate, output, spriteChanged, typesChanged, iconsChanged,
                 hashFileChanged, log, disk0, written, prev, runs>>

\* writeIfChanged's effect on the disk, for a decision w
WriteTo(a, newContent, w) ==
  /\ disk' = IF w THEN [disk EXCEPT ![a] = File(newContent)] ELSE disk
  /\ written' = IF w THEN written \cup {a} ELSE written
  /\ conc' = IF w THEN [conc EXCEPT !.lastWriter[a] = conc.self] ELSE conc

WriteSprite ==
  /\ pc = "writeSprite"
  /\ steps' = Append(steps, pc)
  /\ LET w == ShouldWrite(disk, "sprite", output, hash, opts.force)
     IN  /\ WriteTo("sprite", output, w)
         /\ spriteChanged' = w
  /\ digests' = (digests \/ (~opts.force /\ hash # undefined))
  /\ pc' = "writeTypes"
  /\ UNCHANGED <<opts, typesDir, currentSprite, currentTypes, spriteUpToDate,
                 typesUpToDate, output, hash, typesChanged, iconsChanged,
                 hashFileChanged, log, disk0, prev, runs>>

\* variant: the types write does not pass the caller's force on, it forces
WriteTypesForced ==
  /\ pc = "writeTypes"
  /\ steps' = Append(steps, pc)
  /\ LET w == ShouldWrite(disk, "types", typeOutputContent(iconNames), undefined, TRUE)
     IN  /\ WriteTo("types", typeOutputContent(iconNames), w)
         /\ typesChanged' = w
  /\ pc' = "writeIcons"
  /\ UNCHANGED <<opts, typesDir, currentSprite, currentTypes, spriteUpToDate,
                 typesUpToDate, output, hash, spriteChanged, iconsChanged,
                 hashFileChanged, log, disk0, digests, prev, runs>>

WriteTypes ==
  /\ pc = "writeTypes"
  /\ steps' = Append(steps, pc)
  /\ LET w == ShouldWrite(disk, "types", typeOutputContent(iconNames), undefined,
                          opts.force)
     IN  /\ WriteTo("types", typeOutputContent(iconNames), w)
         /\ typesChanged' = w
  /\ pc' = "writeIcons"
  /\ UNCHANGED <<opts, typesDir, currentSprite, currentTypes, spriteUpToDate,
                 typesUpToDate, output, hash, spriteChanged, iconsChanged,
                 hashFileChanged, log, disk0, digests, prev, runs>>

\* variant: the hash file export is not guarded by shouldHash
WriteIconsThenHashAlways ==
  /\ pc = "writeIcons"
  /\ steps' = Append(steps, pc)
  /\ LET w == ShouldWrite(disk, "icons", iconsOutputContent(iconNames), undefined,
                          opts.force)
     IN  /\ WriteTo("icons", iconsOutputContent(iconNames), w)
         /\ iconsChanged' = w
  /\ pc' = "writeHash"
  /\ UNCHANGED <<opts, typesDir, currentSprite, currentTypes, spriteUpToDate,
                 typesUpToDate, output, hash, spriteChanged, typesChanged,
                 hashFileChanged, log, disk0, digests, prev, runs>>

WriteIcons ==
  /\ pc = "writeIcons"
  /\ steps' = Append(steps, pc)
  /\ LET w == ShouldWrite(disk, "icons", iconsOutputContent(iconNames), undefined,
                          opts.force)
     IN  /\ WriteTo("icons", iconsOutputContent(iconNames), w)
         /\ iconsChanged' = w
  /\ pc' = IF opts.shouldHash THEN "writeHash" ELSE "report"
  /\ UNCHANGED <<opts, typesDir, currentSprite, currentTypes, spriteUpToDate,
                 typesUpToDate, output, hash, spriteChanged, typesChanged,
                 hashFileChanged, log, disk0, digests, prev, runs>>

\* a variant that exports the digest of the sprite.svg found on disk
WriteHashOfSpriteOnDisk ==
  /\ pc = "writeHash"
  /\ steps' = Append(steps, pc)
  /\ LET content == hashFileContent(md5(ReadOrEmpty(disk, "sprite")))
         w == ShouldWrite(disk, "hash", content, undefined, opts.force)
     IN  /\ WriteTo("hash", content, w)
         /\ hashFileChanged' = w
  /\ pc' = "report"
  /\ UNCHANGED <<opts, typesDir, currentSprite, currentTypes, spriteUpToDate,
                 typesUpToDate, output, hash, spriteChanged, typesChanged,
                 iconsChanged, log, disk0, digests, prev, runs>>

WriteHash ==
  /\ pc = "writeHash"
  /\ steps' = Append(steps, pc)
  /\ LET w == ShouldWrite(disk, "hash", hashFileContent(hash), undefined, opts.force)
     IN  /\ WriteTo("hash", hashFileContent(hash), w)
         /\ hashFileChanged' = w
  /\ pc' = "report"
  /\ UNCHANGED <<opts, typesDir, currentSprite, currentTypes, spriteUpToDate,
                 typesUpToDate, output, hash, spriteChanged, typesChanged,
                 iconsChanged, log, disk0, digests, prev, runs>>

\* the closing log
Report ==
  /\ pc = "report"
  /\ steps' = Append(steps, pc)
  /\ UNCHANGED conc
  /\ log' = IF spriteChanged \/ typesChanged \/ iconsChanged
            THEN "Generated icons" ELSE "Icons are up to date"
  /\ pc' = "REPORT"
  /\ UNCHANGED <<opts, disk, typesDir, currentSprite, currentTypes, spriteUpToDate,
                 typesUpToDate, output, hash, spriteChanged, typesChanged,
                 iconsChanged, hashFileChanged, history>>

\* an awaited call rejects (ensureDir, reading a source, the optimizer, a
\* write): the exception leaves generateIconFiles, nothing is rolled back
FailPoints ==
  {"ensureDir", "assemble", "optimize", "writeSprite", "writeTypes", "writeIcons",
   "writeHash"}

Fail ==
  /\ pc \in FailPoints
  /\ pc' = "FAILED"
  /\ UNCHANGED <<opts, disk, typesDir, locals, history, steps, conc>>

Next ==
  \/ Start
  \/ EnsureDir
  \/ ReadSprite
  \/ ReadTypes
  \/ CheckUpToDate
  \/ Assemble
  \/ Optimize
  \/ Hash
  \/ WriteSprite
  \/ WriteTypes
  \/ WriteIcons
  \/ WriteHash
  \/ Report
  \/ Fail

Spec == Init /\ [][Next]_vars

\* ------------------------------------------------- every order of a file list
MaxListed == 3

\* file lists in any order, a file possibly listed more than once
ListedFiles == UNION {[1..n -> SourceFiles] : n \in 0..MaxListed}

ListedOptions ==
  [files : ListedFiles, shouldOptimize : BOOLEAN, shouldHash : BOOLEAN, force : BOOLEAN]

\* what a call sets up, whoever calls
Begin(o) ==
  /\ opts' = o
  /\ pc' = "ensureDir"
  /\ currentSprite' = << >> /\ currentTypes' = << >>
  /\ spriteUpToDate' = FALSE /\ typesUpToDate' = FALSE
  /\ output' = << >> /\ hash' = undefined
  /\ spriteChanged' = FALSE /\ typesChanged' = FALSE
  /\ iconsChanged' = FALSE /\ hashFileChanged' = FALSE
  /\ log' = "none"
  /\ disk0' = disk
  /\ written' = {}
  /\ digests' = FALSE
  /\ steps' = << >>
  /\ UNCHANGED <<disk, typesDir>>

\* one call of generateIconFiles with any list of files
StartListed ==
  /\ pc = "idle"
  /\ \E o \in ListedOptions : Begin(o)
  /\ prev' = NoRun
  /\ runs' = runs + 1
  /\ conc' = Alone

NextListed ==
  \/ StartListed
  \/ EnsureDir
  \/ ReadSprite
  \/ ReadTypes
  \/ CheckUpToDate
  \/ Assemble
  \/ Optimize
  \/ Hash
  \/ WriteSprite
  \/ WriteTypes
  \/ WriteIcons
  \/ WriteHash
  \/ Report
  \/ Fail

SpecListed == Init /\ [][NextListed]_vars

\* ---------------------------------------- runs on what earlier runs have left
\* the directory after a run over h.svg with shouldHash and then a run over
\* h2.svg without: hash.ts still holds the digest of the first sprite
LeftOptions(file, h) ==
  [files |-> <<file>>, shouldOptimize |-> FALSE, shouldHash |-> h, force |-> FALSE]

LeftByEarlierRuns ==
  [a \in Artifacts |->
     IF a = "hash" THEN File(Fresh(LeftOptions(<<"h">> \o Ext, TRUE), a))
     ELSE File(Fresh(LeftOptions(<<"h", "2">> \o Ext, FALSE), a))]

InitLeft ==
  /\ pc = "idle"
  /\ opts = NoOptions
  /\ disk = LeftByEarlierRuns
  /\ typesDir = disk["types"].exists
  /\ currentSprite = << >> /\ currentTypes = << >>
  /\ spriteUpToDate = FALSE /\ typesUpToDate = FALSE
  /\ output = << >> /\ hash = undefined
  /\ spriteChanged = FALSE /\ typesChanged = FALSE
  /\ iconsChanged = FALSE /\ hashFileChanged = FALSE
  /\ log = "none"
  /\ disk0 = disk
  /\ written = {}
  /\ digests = FALSE
  /\ prev = NoRun
  /\ runs = 0
  /\ steps = << >>
  /\ conc = Alone

SpecLeft == InitLeft /\ [][Next]_vars

\* ------------------------------------------ two invocations, one output directory
\* the two calls of a caller that does not serialize them: the same flags,
\* different file lists
ConcurrentCalls ==
  {p \in Options \X Options :
     /\ p[1].files # p[2].files
     /\ p[1].shouldOptimize = p[2].shouldOptimize
     /\ p[1].shouldHash = p[2].shouldHash
     /\ p[1].force = p[2].force}

StartBoth ==
  /\ pc = "idle"
  /\ \E p \in ConcurrentCalls :
       /\ Begin(p[1])
       /\ conc' = [Alone EXCEPT !.other = Invocation("ensureDir", p[2])]
  /\ prev' = NoRun
  /\ runs' = runs + 2

\* an invocation gives way only where it awaits
AwaitPoints == FailPoints \cup {"readSprite", "readTypes"}

\* the running invocation is at an await (or over) and the other one resumes
Switch ==
  /\ conc.other.pc \in AwaitPoints
  /\ pc \in AwaitPoints \cup Terminal
  /\ pc' = conc.other.pc
  /\ opts' = conc.other.opts
  /\ currentSprite' = conc.other.currentSprite
  /\ currentTypes' = conc.other.currentTypes
  /\ spriteUpToDate' = conc.other.spriteUpToDate
  /\ typesUpToDate' = conc.other.typesUpToDate
  /\ output' = conc.other.output
  /\ hash' = conc.other.hash
  /\ spriteChanged' = conc.other.spriteChanged
  /\ typesChanged' = conc.other.typesChanged
  /\ iconsChanged' = conc.other.iconsChanged
  /\ hashFileChanged' = conc.other.hashFileChanged
  /\ log' = conc.other.log
  /\ written' = conc.other.written
  /\ digests' = conc.other.digests
  /\ steps' = conc.other.steps
  /\ conc' = [conc EXCEPT
       !.self = 3 - conc.self,
       !.other =
         [pc |-> pc, opts |-> opts,
          currentSprite |-> currentSprite, currentTypes |-> currentTypes,
          spriteUpToDate |-> spriteUpToDate, typesUpToDate |-> typesUpToDate,
          output |-> output, hash |-> hash,
          spriteChanged |-> spriteChanged, typesChanged |-> typesChanged,
          iconsChanged |-> iconsChanged, hashFileChanged |-> hashFileChanged,
          log |-> log, written |-> written, digests |-> digests, steps |-> steps]]
  /\ UNCHANGED <<disk, typesDir, disk0, prev, runs>>

NextConcurrent ==
  \/ StartBoth
  \/ Switch
  \/ EnsureDir
  \/ ReadSprite
  \/ ReadTypes
  \/ CheckUpToDate
  \/ Assemble
  \/ Optimize
  \/ Hash
  \/ WriteSprite
  \/ WriteTypes
  \/ WriteIcons
  \/ WriteHash
  \/ Report
  \/ Fail

SpecConcurrent == Init /\ [][NextConcurrent]_vars

TypeOK ==
  /\ pc \in {"idle", "ensureDir", "readSprite", "readTypes", "check", "assemble",
             "optimize", "hash", "writeSprite", "writeTypes", "writeIcons",
             "writeHash", "report"} \cup Terminal
  /\ opts \in Options
  /\ written \subseteq Artifacts
  /\ runs \in 0..MaxRuns
  /\ conc.self \in {1, 2}

\* =================================================================== claims
BeforeCheck == {"idle", "ensureDir", "readSprite", "readTypes", "check"}
Regenerating ==
  {"assemble", "optimize", "hash", "writeSprite", "writeTypes", "writeIcons",
   "writeHash", "report", "REPORT"}

\* the invocation before this one completed, with these very options
RerunOfCompleted == prev.term \in Completed /\ prev.opts = opts

NoWrites ==
  /\ written = {}
  /\ disk = disk0
  /\ ~spriteChanged /\ ~typesChanged /\ ~iconsChanged /\ ~hashFileChanged

\* C1 as stated: a second run with the options of the completed run before it
\* writes nothing and every writeIfChanged of it returns false, whatever force is.
C1_IdempotentAnyForce == RerunOfCompleted => NoWrites

\* C1, amended: with force false, a second run with the options of the completed
\* run before it writes no artifact and every writeIfChanged of it returns false.
C1_Idempotent == (RerunOfCompleted /\ ~opts.force) => NoWrites

C1_Witness ==
  /\ RerunOfCompleted /\ ~opts.force
  /\ prev.term = "REPORT" /\ prev.wrote
  /\ pc = "REPORT" /\ opts.files # << >> /\ opts.shouldHash

\* C2 (on the non-empty file lists): a completed run with force = true has
\* written the sprite, the types and the identifier array, and the hash module
\* when shouldHash.
C2_ForceWritesAll ==
  (pc \in Completed /\ opts.force /\ opts.files # << >>) =>
    /\ {"sprite", "types", "icons"} \subseteq written
    /\ opts.shouldHash => "hash" \in written

\* C3: the run after a regenerating, completed run over a non-empty file list,
\* with the same options, finds the staleness check true and never enters the
\* assemble/optimize/hash/write pipeline.
C3_FastPath ==
  (prev.term = "REPORT" /\ prev.opts = opts /\ opts.files # << >>) =>
    /\ pc \notin Regenerating
    /\ pc \in Completed => spriteUpToDate /\ typesUpToDate

\* C4: once the staleness check of a run is true, the run is at UP_TO_DATE,
\* reports "up to date" and all four artifacts are as they were when it started.
C4_ShortCircuitFrame ==
  (pc \notin BeforeCheck /\ spriteUpToDate /\ typesUpToDate) =>
    /\ pc = "UP_TO_DATE"
    /\ log = "Icons are up to date"
    /\ disk = disk0
    /\ written = {}

C4_Witness ==
  /\ pc = "UP_TO_DATE" /\ spriteUpToDate /\ typesUpToDate
  /\ opts.files # << >> /\ opts.force /\ opts.shouldHash /\ opts.shouldOptimize
  /\ ~disk["icons"].exists

\* the ids of the elements of a sprite text: what stands between an "id=" and
\* the ">" that closes the tag
ElementIds(text) ==
  {SubSeq(text, i + 1, j - 1) :
     <<i, j>> \in {p \in (1..Len(text)) \X (1..Len(text)) :
                    /\ text[p[1]] = "id=" /\ p[1] < p[2] /\ text[p[2]] = ">"
                    /\ \A k \in (p[1] + 1)..(p[2] - 1) : text[k] # ">"}}

\* name stands in the text as a quoted string literal
HasLiteral(text, name) ==
  \E q \in {DQ, SQ} : Includes(text, <<q>> \o name \o <<q>>)

MissingIdentifier ==
  \E i \in 1..Len(iconNames) :
    \/ iconNames[i] \notin ElementIds(currentSprite)
    \/ ~HasLiteral(currentTypes, iconNames[i])

\* C5: when a desired identifier has no element in the sprite read, or is no
\* quoted literal of the types text read, the check is false and the run
\* regenerates.
C5_DetectsMissing ==
  (pc \notin BeforeCheck /\ MissingIdentifier) =>
    /\ ~(spriteUpToDate /\ typesUpToDate)
    /\ pc # "UP_TO_DATE"

\* C6: at the final report the run says "Generated N icons" exactly when one of
\* the four writeIfChanged calls returned true.
C6_Aggregation ==
  pc = "REPORT" =>
    ((log = "Generated icons")
       <=> (spriteChanged \/ typesChanged \/ iconsChanged \/ hashFileChanged))

\* G is F with one new file put in
PlusOne(F, G) ==
  /\ Len(G) = Len(F) + 1
  /\ \E i \in 1..Len(G) :
       /\ G[i] \notin Range(F)
       /\ F = [j \in 1..Len(F) |-> IF j < i THEN G[j] ELSE G[j + 1]]

\* this run has the flags of the run before it, which ended in one of `terms`
\* unforced, and one more file
AddedAfter(terms) ==
  /\ prev.term \in terms
  /\ ~prev.opts.force /\ ~opts.force
  /\ prev.opts.shouldOptimize = opts.shouldOptimize
  /\ prev.opts.shouldHash = opts.shouldHash
  /\ PlusOne(prev.opts.files, opts.files)

MinimalWrite ==
  /\ pc = "REPORT"
  /\ written = {"sprite", "types", "icons"} \cup (IF opts.shouldHash THEN {"hash"} ELSE {})
  /\ opts.shouldHash =>
       /\ disk["hash"] # disk0["hash"]
       /\ disk["hash"] = File(hashFileContent(md5(disk["sprite"].content)))

\* C7 as stated: after any completed unforced run over F, the run over F plus
\* one new file rewrites sprite, types and identifier array, and the hash module
\* exactly when shouldHash, with the digest of the new sprite.
C7_MinimalWriteAfterCompleted ==
  (pc \in Completed /\ AddedAfter(Completed)) => MinimalWrite

\* C7, amended: the same, after an unforced run over F that regenerated and
\* completed (ended at the final report).
C7_MinimalWrite ==
  (pc \in Completed /\ AddedAfter({"REPORT"})) => MinimalWrite

C7_Witness ==
  /\ pc = "REPORT" /\ AddedAfter({"REPORT"})
  /\ prev.opts.files # << >> /\ opts.shouldHash
  /\ disk0["hash"].exists

AllFresh ==
  \A a \in Artifacts :
    (a = "hash" => opts.shouldHash) => disk[a] = File(Fresh(opts, a))

\* C8: the completed run after a run that failed with some artifact written,
\* same options, leaves every artifact equal to its freshly computed content.
C8_RerunReconciles ==
  (pc \in Completed /\ prev.term = "FAILED" /\ prev.wrote /\ prev.opts = opts)
    => AllFresh

\* C9 (on the non-empty file lists): in a completed run, the types file and the
\* identifier array are each written exactly when force is set or the file's own
\* content at the start of the run differs from its freshly computed content.
C9_OwnContentDecides ==
  (pc \in Completed /\ opts.files # << >>) =>
    \A a \in {"types", "icons"} :
      (a \in written) <=> (opts.force \/ ReadOrEmpty(disk0, a) # Fresh(opts, a))

\* C10: through a run with shouldHash false hash.ts stays as it was when the run
\* started (content and existence) and no digest is computed.
C10_HashOnlyWhenAsked ==
  (pc # "idle" /\ ~opts.shouldHash) =>
    /\ disk["hash"] = disk0["hash"]
    /\ "hash" \notin written
    /\ ~hashFileChanged
    /\ ~digests /\ hash = undefined

C10_Witness ==
  /\ pc = "REPORT" /\ ~opts.shouldHash
  /\ "sprite" \in written
  /\ disk["hash"].exists
  /\ disk["hash"] # File(Fresh(opts, "hash"))

\* the ids of the elements of a sprite text, in document order
Indices(text) == [i \in 1..Len(text) |-> i]

SymbolIds(text) ==
  LET at == SelectSeq(Indices(text), LAMBDA i : text[i] = "id=")
      close(i) == CHOOSE j \in (i + 1)..Len(text) :
                    text[j] = ">" /\ \A k \in (i + 1)..(j - 1) : text[k] # ">"
  IN  [n \in 1..Len(at) |-> SubSeq(text, at[n] + 1, close(at[n]) - 1)]

\* the string literals of a text that are quoted with q, in text order
Literals(text, q) ==
  LET at == SelectSeq(Indices(text), LAMBDA i : text[i] = q)
  IN  [n \in 1..(Len(at) \div 2) |-> SubSeq(text, at[2 * n - 1] + 1, at[2 * n] - 1)]

IsPrefix(s, t) == Len(s) <= Len(t) /\ SubSeq(t, 1, Len(s)) = s

NoDuplicates(s) == \A i, j \in 1..Len(s) : i # j => s[i] # s[j]

CheckSteps == <<"ensureDir", "readSprite", "readTypes", "check">>

\* the steps of a regenerating run with options o, in the order of the spec
RegenerateSteps(o) ==
  CheckSteps \o <<"assemble">>
    \o (IF o.shouldOptimize THEN <<"optimize">> ELSE << >>)
    \o (IF o.shouldHash THEN <<"hash">> ELSE << >>)
    \o <<"writeSprite", "writeTypes", "writeIcons">>
    \o (IF o.shouldHash THEN <<"writeHash">> ELSE << >>)
    \o <<"report">>

\* C11: the steps a run has taken are an initial part of assemble, optimize (if
\* shouldOptimize), hash (if shouldHash), write sprite, write types, write
\* identifier array, write hash module (if shouldHash), report, one at a time;
\* a run at the final report has taken them all; and the digest in a hash.ts
\* this run wrote is the digest of the final (optimized, if asked) sprite content.
C11_StepOrder ==
  pc # "idle" =>
    /\ IsPrefix(steps, RegenerateSteps(opts))
    /\ pc = "REPORT" => steps = RegenerateSteps(opts)
    /\ hash # undefined => hash = md5(finalOutput(opts))
    /\ "sprite" \in written => output = finalOutput(opts)
    /\ "hash" \in written =>
         /\ disk["hash"] = File(hashFileContent(md5(finalOutput(opts))))
         /\ Len(steps) >= Len(RegenerateSteps(opts)) - 1

C11_Witness ==
  /\ pc = "REPORT" /\ opts.shouldOptimize /\ opts.shouldHash
  /\ {"sprite", "hash"} \subseteq written
  /\ opts.files # << >>

EmptyDirectory == [a \in Artifacts |-> NoFile]

FirstRun ==
  /\ pc # "idle"
  /\ disk0 = EmptyDirectory
  /\ opts.files # << >> /\ ~opts.shouldHash /\ ~opts.force

\* C12: a run over a non-empty list with shouldHash and force false, started on
\* a directory without artifacts, does not fail at the reads of the missing
\* sprite and types files, regenerates, and at its end has written the sprite,
\* the types and the identifier array, each listing exactly the derived
\* identifiers, has written no hash module, and reports "Generated".
C12_FirstRun ==
  FirstRun =>
    /\ pc = "FAILED" => steps \notin {<<"ensureDir">>, <<"ensureDir", "readSprite">>}
    /\ pc \notin BeforeCheck => currentSprite = << >> /\ currentTypes = << >>
    /\ pc # "UP_TO_DATE"
    /\ pc = "REPORT" =>
         /\ written = {"sprite", "types", "icons"}
         /\ SymbolIds(disk["sprite"].content) = namesOf(opts.files)
         /\ Literals(disk["types"].content, SQ) = namesOf(opts.files)
         /\ Literals(disk["icons"].content, DQ) = namesOf(opts.files)
         /\ ~disk["hash"].exists
         /\ log = "Generated icons"

C12_Witness ==
  /\ FirstRun /\ pc = "REPORT" /\ Len(opts.files) = 2 /\ opts.shouldOptimize

RECURSIVE IsSubsequence(_, _)
IsSubsequence(G, F) ==
  IF G = << >> THEN TRUE
  ELSE IF F = << >> THEN FALSE
  ELSE IF Head(G) = Head(F) THEN IsSubsequence(Tail(G), Tail(F))
  ELSE IsSubsequence(G, Tail(F))

\* this run has the flags of the regenerating, unforced run before it and a
\* proper sub-list of its files
DeletedAfterRegenerated ==
  /\ prev.term = "REPORT"
  /\ ~prev.opts.force /\ ~opts.force
  /\ prev.opts.shouldOptimize = opts.shouldOptimize
  /\ prev.opts.shouldHash = opts.shouldHash
  /\ Len(opts.files) < Len(prev.opts.files)
  /\ IsSubsequence(opts.files, prev.opts.files)

\* C15 (after a run over F that regenerated): a completed run over a proper
\* sub-list of F finds the staleness check true, ends at UP_TO_DATE, and the
\* identifiers of F are still in sprite.svg, the types file and icons.ts.
C15_StaleEntriesStay ==
  (pc \in Completed /\ DeletedAfterRegenerated) =>
    /\ spriteUpToDate /\ typesUpToDate
    /\ pc = "UP_TO_DATE"
    /\ disk = disk0
    /\ SymbolIds(disk["sprite"].content) = namesOf(prev.opts.files)
    /\ Literals(disk["types"].content, SQ) = namesOf(prev.opts.files)
    /\ Literals(disk["icons"].content, DQ) = namesOf(prev.opts.files)

\* the steps of generateIconFiles
Step ==
  \/ EnsureDir \/ ReadSprite \/ ReadTypes \/ CheckUpToDate \/ Assemble \/ Optimize
  \/ Hash \/ WriteSprite \/ WriteTypes \/ WriteIcons \/ WriteHash \/ Report

\* C16: a run takes no step twice and takes its steps in the one order; while it
\* has neither returned nor failed a next step is enabled, so with at most
\* Len(RegenerateSteps) steps it ends; it ends at UP_TO_DATE after exactly the
\* steps up to the check, or at REPORT after all of them; the directory exists
\* before the reads and the check; nothing is written before the check; no step
\* is enabled after the end.
C16_LinearRun ==
  pc # "idle" =>
    /\ NoDuplicates(steps)
    /\ IsPrefix(steps, RegenerateSteps(opts))
    /\ pc \notin Terminal => ENABLED Step
    /\ pc \in Terminal => ~ENABLED Step
    /\ pc = "UP_TO_DATE" => steps = CheckSteps
    /\ pc = "REPORT" => steps = RegenerateSteps(opts)
    /\ Len(steps) >= 1 => typesDir
    /\ Len(steps) < Len(CheckSteps) => written = {} /\ disk = disk0

C16_Witness ==
  /\ pc = "REPORT" /\ steps = RegenerateSteps(opts)
  /\ Len(steps) = Len(CheckSteps) + 8
  /\ disk0 \in InitialDisks \ {EmptyDirectory}

\* C17: a run over the empty file list finds both checks true whatever is on
\* disk, ends at UP_TO_DATE (unless ensureDir fails), and writes nothing, for
\* every force, shouldHash and shouldOptimize.
C17_EmptyList ==
  (pc # "idle" /\ opts.files = << >>) =>
    /\ pc \in BeforeCheck \cup {"UP_TO_DATE", "FAILED"}
    /\ pc = "FAILED" => steps = << >>
    /\ pc = "UP_TO_DATE" => spriteUpToDate /\ typesUpToDate /\ log = "Icons are up to date"
    /\ written = {} /\ disk = disk0

C17_Witness ==
  /\ pc = "UP_TO_DATE" /\ opts.files = << >>
  /\ opts.force /\ opts.shouldHash /\ opts.shouldOptimize
  /\ prev.term = "REPORT" /\ Len(prev.opts.files) = 2
  /\ SymbolIds(disk["sprite"].content) = namesOf(prev.opts.files)

\* C18: when a run with shouldHash has regenerated and reached the final report,
\* the constant in hash.ts is the md5 digest of the sprite.svg on disk, whether
\* this run wrote the sprite or not, whatever the runs before it were.
C18_HashAgreesWithSprite ==
  (pc = "REPORT" /\ opts.shouldHash) =>
    /\ disk["sprite"].exists /\ disk["hash"].exists
    /\ disk["hash"].content = hashFileContent(md5(disk["sprite"].content))

C18_Witness ==
  /\ pc = "REPORT" /\ opts.shouldHash /\ opts.shouldOptimize
  /\ "sprite" \notin written /\ "hash" \in written
  /\ prev.term = "REPORT" /\ ~prev.opts.shouldHash

\* C18 as stated for every completed run: when a run with shouldHash has ended,
\* at the early return or at the final report, a hash.ts on disk holds the
\* digest of the sprite.svg on disk.
C18_NoOlderDigest ==
  (pc \in Completed /\ opts.shouldHash /\ disk["hash"].exists) =>
    disk["hash"].content = hashFileContent(md5(ReadOrEmpty(disk, "sprite")))

\* C13: for every list of files, in any order and with repetitions, the quoted
\* literals of the type declarations and those of the identifier array, as
\* generated and as written, are iconName mapped over the files in the order
\* given: as many as there are files, none moved, none dropped.
C13_OrderPreserved ==
  pc # "idle" =>
    /\ Literals(typeOutputContent(iconNames), SQ) = namesOf(opts.files)
    /\ Literals(iconsOutputContent(iconNames), DQ) = namesOf(opts.files)
    /\ Len(Literals(typeOutputContent(iconNames), SQ)) = Len(opts.files)
    /\ Literals(typeOutputContent(iconNames), SQ) = Literals(iconsOutputContent(iconNames), DQ)
    /\ "types" \in written => Literals(disk["types"].content, SQ) = namesOf(opts.files)
    /\ "icons" \in written => Literals(disk["icons"].content, DQ) = namesOf(opts.files)

\* a list that is not in alphabetical order and names a file twice has been written
C13_Witness ==
  /\ pc = "REPORT"
  /\ opts.files = <<(<<"h", "2">> \o Ext), (<<"h">> \o Ext), (<<"h", "2">> \o Ext)>>
  /\ {"types", "icons"} \subseteq written

OptionsOf(i) == IF i = conc.self THEN opts ELSE conc.other.opts

\* C14: with two invocations interleaved on one directory, every artifact holds
\* what the invocation that wrote it last generated from its own file list, and
\* an artifact neither has written is as it was.
C14_LastWriterWins ==
  \A a \in Artifacts :
    IF conc.lastWriter[a] = 0 THEN disk[a] = disk0[a]
    ELSE disk[a] = File(Fresh(OptionsOf(conc.lastWriter[a]), a))

\* both invocations have ended and the sprite is of one file list, the types
\* and the hash module of the other
C14_Witness ==
  /\ pc \in Completed /\ conc.other.pc \in Completed
  /\ conc.lastWriter["sprite"] # 0
  /\ conc.lastWriter["types"] \notin {0, conc.lastWriter["sprite"]}
  /\ conc.lastWriter["hash"] = conc.lastWriter["types"]
  /\ SymbolIds(disk["sprite"].content) # Literals(disk["types"].content, SQ)
  /\ disk["hash"].content # hashFileContent(md5(disk["sprite"].content))
====
